---- MODULE Spec2Model ----
(***************************************************************************)
(* Model of docs/js/main.js: the StockAnalyzer page controller, its        *)
(* visibilitychange staleness check, and its pure rendering helpers.       *)
(*                                                                         *)
(* JavaScript objects are records whose DOMAIN is the set of fields that   *)
(* are present; a missing field is a field outside the DOMAIN.  Numbers    *)
(* are integers, rendered with ToString as a template literal renders      *)
(* them.  The user-facing texts are written in ASCII.                      *)
(***************************************************************************)
EXTENDS Integers, Sequences, FiniteSets, TLC

VARIABLES
    data,            \* this.data: NULL or the Snapshot
    currentPeriod,   \* this.currentPeriod
    tabsBound,       \* bindEvents() has run
    activeTabs,      \* the periods of the .tab-btn elements carrying class active
    regions,         \* innerHTML of the four containers
    badges,          \* textContent of gainersPeriod / losersPeriod
    updateTimeText,  \* textContent of the updateTime element
    loads,           \* the loadData() calls that are suspended, in issue order
    fetchCount,      \* number of fetch() calls issued so far
    now,             \* the clock, in half hours
    visible,         \* document.visibilityState
    lastOp,          \* the handler that ran last, with its inputs and outcome
    called,          \* pure-function specifications: the function applied
    arg,             \* pure-function specifications: its input
    result           \* pure-function specifications: its output

vars == <<data, currentPeriod, tabsBound, activeTabs, regions, badges,
          updateTimeText, loads, fetchCount, now, visible, lastOp,
          called, arg, result>>

ctlVars == <<data, currentPeriod, tabsBound, activeTabs, regions, badges,
             updateTimeText, loads, fetchCount, now, visible, lastOp>>

pureVars == <<called, arg, result>>

-----------------------------------------------------------------------------
(* Bounds of the model *)

MaxFetches == 3
MaxNow == 3
MaxStamp == 1
MaxStocks == 4

-----------------------------------------------------------------------------
(* Values *)

NULL == [null |-> TRUE]
EmptyObject == [f \in {} |-> 0]

Has(obj, f) == f \in DOMAIN obj

\* An optional field: opt is <<>> (absent) or <<value>>.
Field(f, opt) == IF opt = <<>> THEN EmptyObject ELSE f :> opt[1]

Periods == {"5d", "10d", "20d"}
Containers == {"marketOverview", "gainersList", "losersList", "statisticsContent"}

LoadFailedMsg == "data failed to load, please refresh later"
NoDataMsg == "no data"
NoMarketDataMsg == "no market data"
NoStatisticsMsg == "no statistics"

OneHour == 60 * 60 * 1000
HalfHour == OneHour \div 2

-----------------------------------------------------------------------------
(* Views written into the containers *)

loadingView == [kind |-> "loading"]
errorView(message) == [kind |-> "error", message |-> message]
emptyView(message) == [kind |-> "empty", message |-> message]

\* A template literal's rendering of obj.f, a number
Interpolate(obj, f) == IF Has(obj, f) THEN ToString(obj[f]) ELSE "undefined"

\* A template literal's rendering of obj.f, a string
InterpolateString(obj, f) == IF Has(obj, f) THEN obj[f] ELSE "undefined"

\* obj.f >= 0, false when obj.f is undefined
NonNegative(obj, f) == Has(obj, f) /\ obj[f] >= 0

getPeriodLabel(period) ==
    LET labels == [p \in Periods |->
                     CASE p = "5d" -> "5 ri" [] p = "10d" -> "10 ri" [] p = "20d" -> "20 ri"]
    IN IF period \in DOMAIN labels THEN labels[period] ELSE period

escapeChar(c) ==
    CASE c = "&" -> "&amp;"
      [] c = "<" -> "&lt;"
      [] c = ">" -> "&gt;"
      [] OTHER -> c

RECURSIVE escapeHtml(_)
escapeHtml(text) ==
    IF text = <<>> THEN "" ELSE escapeChar(Head(text)) \o escapeHtml(Tail(text))

-----------------------------------------------------------------------------
(* Rendering *)

showLoading(rg) == [c \in Containers |-> loadingView]

showError(rg, message) == [c \in Containers |-> errorView(message)]

\* item.value ?? '-' : opt is <<>> for undefined, <<string>> otherwise
nullishOr(opt, fallback) == IF opt = <<>> THEN fallback ELSE opt[1]

plainItem(overview, f, class) ==
    [label |-> f,
     value |-> IF Has(overview, f) THEN <<ToString(overview[f])>> ELSE <<>>,
     class |-> class]

avgChangeItem(overview) ==
    [label |-> "avg_change",
     value |-> << (IF NonNegative(overview, "avg_change") THEN "+" ELSE "")
                  \o Interpolate(overview, "avg_change") \o "%" >>,
     class |-> IF NonNegative(overview, "avg_change") THEN "up" ELSE "down"]

overviewItems(overview) ==
    << plainItem(overview, "total_stocks", "neutral"),
       plainItem(overview, "up_stocks", "up"),
       plainItem(overview, "down_stocks", "down"),
       plainItem(overview, "limit_up", "up"),
       plainItem(overview, "limit_down", "down"),
       avgChangeItem(overview),
       plainItem(overview, "total_amount", "neutral") >>

renderMarketOverview(d) ==
    IF ~Has(d, "market_overview")
    THEN emptyView(NoMarketDataMsg)
    ELSE LET items == overviewItems(d.market_overview)
         IN [kind |-> "overview",
             items |-> [i \in DOMAIN items |->
                          [label |-> items[i].label,
                           value |-> nullishOr(items[i].value, "-"),
                           class |-> items[i].class]]]

\* a marker on the first four rows
rankClassOffByOne(index) == IF index <= 3 THEN "top" \o ToString(index + 1) ELSE ""

rankClass(index) == IF index < 3 THEN "top" \o ToString(index + 1) ELSE ""

changePrefix(type) == IF type = "gainer" THEN "+" ELSE ""

\* index is the 0-based index of Array.prototype.map
rankingRow(stock, index, type) ==
    [rank |-> ToString(index + 1),
     rankClass |-> rankClass(index),
     name |-> escapeHtml(stock.name),
     symbol |-> InterpolateString(stock, "symbol"),
     price |-> "Y" \o Interpolate(stock, "price"),
     change |-> changePrefix(type) \o Interpolate(stock, "period_change") \o "%"]

\* stocks is <<>> when the sequence is undefined, <<sequence>> otherwise
renderRankingList(stocks, type) ==
    IF stocks = <<>> \/ Len(stocks[1]) = 0
    THEN emptyView(NoDataMsg)
    ELSE [kind |-> "rows",
          rows |-> [i \in 1..Len(stocks[1]) |-> rankingRow(stocks[1][i], i - 1, type)]]

\* periodData.f as an option
Get(obj, f) == IF Has(obj, f) THEN <<obj[f]>> ELSE <<>>

\* d is not null here: the callers' null case is RendersThrow
renderRankings(d, period, rg) ==
    IF ~Has(d, "periods") \/ ~Has(d.periods, period)
    THEN [rg EXCEPT !.gainersList = emptyView(NoDataMsg),
                    !.losersList = emptyView(NoDataMsg)]
    ELSE LET periodData == d.periods[period]
         IN [rg EXCEPT
               !.gainersList = renderRankingList(Get(periodData, "gainers"), "gainer"),
               !.losersList = renderRankingList(Get(periodData, "losers"), "loser")]

\* a || b for numbers: 0 is falsy
Truthy(obj, f) == Has(obj, f) /\ obj[f] # 0

statisticsItems(stats, period) ==
    << [label |-> "period", value |-> getPeriodLabel(period), class |-> ""],
       [label |-> "sample_size",
        value |-> IF Truthy(stats, "sample_size") THEN ToString(stats.sample_size)
                  ELSE IF Truthy(stats, "total_stocks") THEN ToString(stats.total_stocks)
                  ELSE "-",
        class |-> ""],
       [label |-> "avg_change",
        value |-> (IF NonNegative(stats, "avg_change") THEN "+" ELSE "")
                  \o Interpolate(stats, "avg_change") \o "%",
        class |-> IF NonNegative(stats, "avg_change") THEN "up" ELSE "down"],
       [label |-> "up_ratio",
        value |-> (IF Truthy(stats, "up_ratio") THEN ToString(stats.up_ratio) ELSE "-")
                  \o "%",
        class |-> ""] >>

renderStatistics(d, period, rg) ==
    LET hasStats == /\ Has(d, "periods")
                    /\ Has(d.periods, period)
                    /\ Has(d.periods[period], "statistics")
    IN IF ~hasStats
       THEN [rg EXCEPT !.statisticsContent = emptyView(NoStatisticsMsg)]
       ELSE [rg EXCEPT !.statisticsContent =
               [kind |-> "stats",
                items |-> statisticsItems(d.periods[period].statistics, period)]]

updatePeriodBadges(period) ==
    [gainersPeriod |-> getPeriodLabel(period), losersPeriod |-> getPeriodLabel(period)]

renderUpdateTime(d, text) ==
    IF Has(d, "update_time") /\ d.update_time # [text |-> ""] THEN d.update_time ELSE text

\* renderRankings without its !this.data.periods guard
RendersThrowUnguarded(d, period) == d = NULL \/ ~Has(d, "periods")

\* renderRankings' first test, this.data.periods, raises a TypeError on null;
\* !this.data.periods guards the lookup of the period
RendersThrow(d, period) == d = NULL

\* render(): dom is [regions, badges, updateTime]
render(d, period, dom) ==
    IF d = NULL
    THEN [dom EXCEPT !.regions = showError(dom.regions, NoDataMsg)]
    ELSE [regions |-> renderStatistics(d, period,
                        renderRankings(d, period,
                          [dom.regions EXCEPT !.marketOverview = renderMarketOverview(d)])),
          badges |-> updatePeriodBadges(period),
          updateTime |-> renderUpdateTime(d, dom.updateTime)]

-----------------------------------------------------------------------------
(* update_time strings and their parsing *)

\* "Y<sep>M<sep>D h:m:s", denoting the local time t half hours after the epoch
DateString(sep, t) == [sep |-> sep, t |-> t]
Unparseable == [text |-> "n/a"]

\* lastUpdate.replace(/-/g, '/')
replaceDashes(s) == IF Has(s, "sep") THEN [s EXCEPT !.sep = "/"] ELSE s

\* new Date(s).getTime(): <<>> is NaN, <<ms>> a time. Only the slash form is
\* parsed by every engine.
dateGetTime(s) == IF Has(s, "sep") /\ s.sep = "/" THEN <<s.t * HalfHour>> ELSE <<>>

\* a staleness test that also fires at exactly one hour
exceedsOneHourInclusive(nowMs, updateTime) ==
    updateTime # <<>> /\ nowMs - updateTime[1] >= OneHour

\* now - updateTime > oneHour, false when updateTime is NaN
exceedsOneHour(nowMs, updateTime) == updateTime # <<>> /\ nowMs - updateTime[1] > OneHour

\* the visibilitychange handler's decision to reload (d is window.stockAnalyzer.data)
shouldReload(d, nowMs) ==
    /\ d # NULL
    /\ Has(d, "update_time")
    /\ d.update_time # [text |-> ""]
    /\ exceedsOneHour(nowMs, dateGetTime(replaceDashes(d.update_time)))

-----------------------------------------------------------------------------
(* The documents the server may return *)

StockA == [name |-> <<"A", "<", "b", ">">>, symbol |-> "600001", price |-> 12, period_change |-> 9]
StockB == [name |-> <<"T", "&", "C">>, symbol |-> "000002", price |-> 7, period_change |-> 0]
StockC == [name |-> <<"Z">>, symbol |-> "300003", price |-> 3, period_change |-> -4]
Stocks == {StockA, StockB, StockC}

StatsA == [sample_size |-> 50, avg_change |-> 2, up_ratio |-> 60]
StatsB == [total_stocks |-> 40, avg_change |-> -1]

OverviewA == [total_stocks |-> 100, up_stocks |-> 60, down_stocks |-> 40, limit_up |-> 3,
              limit_down |-> 0, avg_change |-> 1, total_amount |-> 900]

PeriodsOnly5d ==
    ("5d" :> [gainers |-> <<StockA, StockB>>, losers |-> <<StockC>>, statistics |-> StatsA])

PeriodsAll ==
    ("5d" :> [gainers |-> <<StockB>>, losers |-> <<StockC, StockA>>, statistics |-> StatsB])
    @@ ("10d" :> [gainers |-> <<StockA, StockC>>, losers |-> <<>>])
    @@ ("20d" :> [losers |-> <<StockB>>, statistics |-> StatsA])

UpdateTimeChoices ==
    {<<>>, <<Unparseable>>} \cup {<<DateString("-", t)>> : t \in 0..MaxStamp}
OverviewChoices == {<<>>, <<OverviewA>>}
PeriodsChoices == {<<>>, <<PeriodsOnly5d>>, <<PeriodsAll>>}

Snapshots ==
    { Field("update_time", u) @@ Field("market_overview", o) @@ Field("periods", ps) :
        u \in UpdateTimeChoices, o \in OverviewChoices, ps \in PeriodsChoices }

\* what response.json() may resolve to: a Snapshot, or the JSON document null
Bodies == Snapshots \cup {NULL}

-----------------------------------------------------------------------------
(* The page *)

\* the markup: the data-period of each .tab-btn, which of them carries class
\* active, the badges' and the timestamp's initial text
TabButtons == {"5d", "10d", "20d"}
MarkupActiveTabs == {{p} : p \in TabButtons}
MarkupBadges == [gainersPeriod |-> "", losersPeriod |-> ""]
MarkupUpdateTime == [text |-> "--"]

RemoveAt(seq, i) == SubSeq(seq, 1, i - 1) \o SubSeq(seq, i + 1, Len(seq))

constructor ==
    /\ data = NULL
    /\ currentPeriod = "5d"
    \* init() up to its first await: showLoading(), then loadData() issues the fetch
    /\ regions = showLoading([c \in Containers |-> loadingView])
    /\ loads = <<[origin |-> "init", stage |-> "fetching"]>>
    /\ fetchCount = 1
    /\ tabsBound = FALSE
    /\ lastOp = [op |-> "constructor"]

CtlInit ==
    /\ constructor
    /\ activeTabs \in MarkupActiveTabs
    /\ badges = MarkupBadges
    /\ updateTimeText = MarkupUpdateTime
    /\ now = 0
    /\ visible = "visible"

Init ==
    /\ CtlInit
    /\ called = "none" /\ arg = <<>> /\ result = <<>>

\* a click handler that does not clear the other buttons
setActiveKeepOthers(tabs, period) == tabs \cup {period}

\* e.currentTarget.classList.add('active') after removing it from every button
setActive(tabs, period) == {period}

\* what runs when the loadData() promise of a load of this origin settles:
\* init() goes on with bindEvents(), render(), initBackToTop(); the
\* visibilitychange handler's then() calls render()
Continue(origin, d, rg) ==
    LET out == render(d, currentPeriod, [regions |-> rg, badges |-> badges,
                                          updateTime |-> updateTimeText])
    IN /\ regions' = out.regions
       /\ badges' = out.badges
       /\ updateTimeText' = out.updateTime
       /\ tabsBound' = (tabsBound \/ origin = "init")

\* a load that patches the held Snapshot instead of replacing it
mergeData(old, body) == IF old = NULL \/ body = NULL THEN body ELSE body @@ old

\* the data a successful load stores
storeData(old, body) == body

\* the data a failed load leaves
keepData(old) == old

\* fetch() resolves with response.ok: loadData goes on to await response.json()
FetchResolved(i) ==
    /\ loads[i].stage = "fetching"
    /\ loads' = [loads EXCEPT ![i].stage = "parsing"]
    /\ lastOp' = [op |-> "fetchResolved"]
    /\ UNCHANGED <<data, currentPeriod, tabsBound, activeTabs, regions, badges,
                   updateTimeText, fetchCount, now, visible>>

\* fetch() resolves with a non-OK status, or rejects: catch, showError
FetchFailed(i) ==
    /\ loads[i].stage = "fetching"
    /\ loads' = RemoveAt(loads, i)
    /\ data' = keepData(data)
    /\ Continue(loads[i].origin, data', showError(regions, LoadFailedMsg))
    /\ lastOp' = [op |-> "loadFailed", origin |-> loads[i].origin, cause |-> "status"]
    /\ UNCHANGED <<currentPeriod, activeTabs, fetchCount, now, visible>>

\* response.json() resolves with the parsed document
JsonParsed(i, body) ==
    /\ loads[i].stage = "parsing"
    /\ loads' = RemoveAt(loads, i)
    /\ data' = storeData(data, body)
    /\ Continue(loads[i].origin, data', regions)
    /\ lastOp' = [op |-> "loadSucceeded", origin |-> loads[i].origin, body |-> body]
    /\ UNCHANGED <<currentPeriod, activeTabs, fetchCount, now, visible>>

\* response.json() rejects: catch, showError
JsonFailed(i) ==
    /\ loads[i].stage = "parsing"
    /\ loads' = RemoveAt(loads, i)
    /\ data' = keepData(data)
    /\ Continue(loads[i].origin, data', showError(regions, LoadFailedMsg))
    /\ lastOp' = [op |-> "loadFailed", origin |-> loads[i].origin, cause |-> "parse"]
    /\ UNCHANGED <<currentPeriod, activeTabs, fetchCount, now, visible>>

\* a click handler that renders before it updates currentPeriod
staleClickedPeriod(old, period) == old

\* the period the click handler renders with
clickedPeriod(old, period) == period

\* the click handler bindEvents() puts on the tab button of this period
TabClick(period) ==
    /\ tabsBound
    /\ activeTabs' = setActive(activeTabs, period)
    /\ currentPeriod' = period
    /\ IF RendersThrow(data, period)
       THEN /\ UNCHANGED <<regions, badges>>
            /\ lastOp' = [op |-> "tabClick", period |-> period, threw |-> TRUE]
       ELSE /\ regions' = renderStatistics(data, clickedPeriod(currentPeriod, period),
                            renderRankings(data, clickedPeriod(currentPeriod, period), regions))
            /\ badges' = updatePeriodBadges(clickedPeriod(currentPeriod, period))
            /\ lastOp' = [op |-> "tabClick", period |-> period, threw |-> FALSE]
    /\ UNCHANGED <<data, tabsBound, updateTimeText, loads, fetchCount, now, visible>>

\* the document's visibilitychange handler
VisibilityChange(state) ==
    LET reload == state = "visible" /\ shouldReload(data, now * HalfHour)
    IN /\ state # visible
       /\ reload => fetchCount < MaxFetches
       /\ visible' = state
       /\ IF reload
          THEN /\ loads' = Append(loads, [origin |-> "visibility", stage |-> "fetching"])
               /\ fetchCount' = fetchCount + 1
          ELSE UNCHANGED <<loads, fetchCount>>
       /\ lastOp' = [op |-> "visibilitychange", state |-> state]
       /\ UNCHANGED <<data, currentPeriod, tabsBound, activeTabs, regions, badges,
                      updateTimeText, now>>

\* time passes
Tick ==
    /\ now < MaxNow
    /\ now' = now + 1
    /\ lastOp' = [op |-> "tick"]
    /\ UNCHANGED <<data, currentPeriod, tabsBound, activeTabs, regions, badges,
                   updateTimeText, loads, fetchCount, visible>>

Next ==
    \/ \E i \in DOMAIN loads : FetchResolved(i) /\ UNCHANGED pureVars
    \/ \E i \in DOMAIN loads : FetchFailed(i) /\ UNCHANGED pureVars
    \/ \E i \in DOMAIN loads : \E body \in Bodies : JsonParsed(i, body) /\ UNCHANGED pureVars
    \/ \E i \in DOMAIN loads : JsonFailed(i) /\ UNCHANGED pureVars
    \/ \E period \in TabButtons : TabClick(period) /\ UNCHANGED pureVars
    \/ \E state \in {"visible", "hidden"} : VisibilityChange(state) /\ UNCHANGED pureVars
    \/ Tick /\ UNCHANGED pureVars

Spec == Init /\ [][Next]_vars

-----------------------------------------------------------------------------
(* The pure rendering functions, applied to bounded inputs *)

SeqsUpTo(S, n) == UNION {[1..k -> S] : k \in 0..n}

PureCtl ==
    /\ constructor
    /\ activeTabs = {"5d"}
    /\ badges = MarkupBadges
    /\ updateTimeText = MarkupUpdateTime
    /\ now = 0
    /\ visible = "visible"

OverviewInputs ==
    { Field("total_stocks", a) @@ Field("up_stocks", b) @@ Field("down_stocks", c)
      @@ Field("limit_up", d) @@ Field("limit_down", e) @@ Field("avg_change", f)
      @@ Field("total_amount", g) :
        a \in {<<>>, <<100>>}, b \in {<<>>, <<60>>}, c \in {<<>>, <<40>>},
        d \in {<<>>, <<3>>}, e \in {<<>>, <<0>>}, f \in {<<>>, <<-3>>, <<0>>, <<15>>},
        g \in {<<>>, <<900>>} }

InitOverview ==
    /\ PureCtl
    /\ called = "none" /\ arg \in OverviewInputs /\ result = <<>>

ApplyRenderMarketOverview ==
    /\ called = "none"
    /\ called' = "renderMarketOverview"
    /\ result' = renderMarketOverview([market_overview |-> arg])
    /\ UNCHANGED <<arg, ctlVars>>

NextOverview == ApplyRenderMarketOverview

SpecOverview == InitOverview /\ [][NextOverview]_vars

RankingInputs ==
    { [type |-> t] @@ Field("stocks", st) :
        t \in {"gainer", "loser"},
        st \in {<<>>} \cup {<<q>> : q \in SeqsUpTo(Stocks, MaxStocks)} }

InitRanking ==
    /\ PureCtl
    /\ called = "none" /\ arg \in RankingInputs /\ result = <<>>

ApplyRenderRankingList ==
    /\ called = "none"
    /\ called' = "renderRankingList"
    /\ result' = renderRankingList(Get(arg, "stocks"), arg.type)
    /\ UNCHANGED <<arg, ctlVars>>

NextRanking == ApplyRenderRankingList

SpecRanking == InitRanking /\ [][NextRanking]_vars

-----------------------------------------------------------------------------
(* Properties *)

HasPeriod(d, period) == Has(d, "periods") /\ Has(d.periods, period)

\* the stock sequence a ranking list of this period is to show (empty when absent)
StocksOf(d, period, list) ==
    IF HasPeriod(d, period) /\ Has(d.periods[period], list)
    THEN d.periods[period][list]
    ELSE <<>>

\* a ranking region shows exactly these stocks, in order, or the placeholder
ShowsStocks(view, stocks) ==
    IF stocks = <<>>
    THEN view = emptyView(NoDataMsg)
    ELSE /\ view.kind = "rows"
         /\ Len(view.rows) = Len(stocks)
         /\ \A i \in 1..Len(stocks) : view.rows[i].symbol = stocks[i].symbol

\* the statistics region shows the statistics of this period, or the empty state
ShowsStatistics(view, d, period) ==
    IF HasPeriod(d, period) /\ Has(d.periods[period], "statistics")
    THEN /\ view.kind = "stats"
         /\ view.items[1].value = getPeriodLabel(period)
         /\ view.items[3].value =
              (IF d.periods[period].statistics.avg_change >= 0 THEN "+" ELSE "")
              \o ToString(d.periods[period].statistics.avg_change) \o "%"
    ELSE view = emptyView(NoStatisticsMsg)

BadgesShow(bd, period) ==
    bd.gainersPeriod = getPeriodLabel(period) /\ bd.losersPeriod = getPeriodLabel(period)

\* C1: after every failed load, once the operation that started it has finished,
\* all four regions show the load-failure message.
C1_FailedLoadShowsErrorEverywhere ==
    lastOp.op = "loadFailed" => \A c \in Containers : regions[c] = errorView(LoadFailedMsg)

\* C2: the held Snapshot changes only when a load completes: a successful load
\* replaces it wholesale with the parsed response, a failed load leaves it as it
\* was, and nothing else changes it.
C2_SnapshotChangesOnlyByLoad ==
    [][ /\ (data' # data => lastOp'.op = "loadSucceeded")
        /\ (lastOp'.op = "loadSucceeded" => data' = lastOp'.body)
        /\ (lastOp'.op = "loadFailed" => data' = data) ]_vars

\* C2 witness: a reload succeeded whose response has no update_time, although the
\* Snapshot it was started for had one.
C2_Witness ==
    /\ lastOp.op = "loadSucceeded"
    /\ lastOp.origin = "visibility"
    /\ data # NULL
    /\ ~Has(data, "update_time")

\* C3: at most one load is in flight in every reachable state.
C3_AtMostOneLoadInFlight == Len(loads) <= 1

\* C4: a tab selection with a Snapshot held issues no fetch, leaves the Snapshot
\* and the market overview unchanged, sets currentPeriod to the selected period,
\* and leaves the rankings, statistics and badges showing that period.
C4_TabSelectionShowsPeriod ==
    [][ (lastOp'.op = "tabClick" /\ data # NULL) =>
          /\ fetchCount' = fetchCount
          /\ loads' = loads
          /\ data' = data
          /\ regions'.marketOverview = regions.marketOverview
          /\ currentPeriod' = lastOp'.period
          /\ ShowsStocks(regions'.gainersList, StocksOf(data, lastOp'.period, "gainers"))
          /\ ShowsStocks(regions'.losersList, StocksOf(data, lastOp'.period, "losers"))
          /\ ShowsStatistics(regions'.statisticsContent, data, lastOp'.period)
          /\ BadgesShow(badges', lastOp'.period) ]_vars

\* C4 witness: the 10-day tab was selected with a Snapshot holding 10-day gainers.
C4_Witness ==
    /\ lastOp.op = "tabClick"
    /\ lastOp.period = "10d"
    /\ data # NULL
    /\ StocksOf(data, "10d", "gainers") # <<>>
    /\ regions.gainersList.kind = "rows"
    /\ currentPeriod = "10d"

\* the claim's staleness: the clock exceeds update_time by more than one hour
StaleByMoreThanOneHour(d, nowTicks) ==
    /\ Has(d, "update_time")
    /\ Has(d.update_time, "t")
    /\ (nowTicks - d.update_time.t) * HalfHour > OneHour

\* C5: on a visibility-regained event with a Snapshot held, a load is started if
\* and only if the clock exceeds update_time by more than one hour; and nothing
\* but a visibility-regained event starts a load after construction.
C5_ReloadIffStale ==
    [][ /\ (lastOp'.op = "visibilitychange" /\ lastOp'.state = "visible" /\ data # NULL) =>
              ( (fetchCount' = fetchCount + 1 /\ Len(loads') = Len(loads) + 1)
                <=> StaleByMoreThanOneHour(data, now) )
        /\ (lastOp'.op = "visibilitychange" /\ lastOp'.state = "visible"
              /\ ~StaleByMoreThanOneHour(data, now)) =>
              (fetchCount' = fetchCount /\ loads' = loads)
        /\ (fetchCount' # fetchCount \/ Len(loads') > Len(loads)) =>
              (lastOp'.op = "visibilitychange" /\ lastOp'.state = "visible") ]_vars

\* C5 witness: the page became visible more than an hour after update_time and a
\* reload is in flight.
C5_Witness ==
    /\ lastOp = [op |-> "visibilitychange", state |-> "visible"]
    /\ data # NULL
    /\ StaleByMoreThanOneHour(data, now)
    /\ fetchCount = 2
    /\ loads = <<[origin |-> "visibility", stage |-> "fetching"]>>

C7_MissingPeriodIsSafe ==
    (lastOp.op = "tabClick" /\ data # NULL /\ ~HasPeriod(data, lastOp.period)) =>
        /\ ~lastOp.threw
        /\ regions.gainersList = emptyView(NoDataMsg)
        /\ regions.losersList = emptyView(NoDataMsg)
        /\ regions.statisticsContent = emptyView(NoStatisticsMsg)
        /\ BadgesShow(badges, lastOp.period)

\* C7 witness: the 20-day tab was selected with a Snapshot that has periods but no
\* 20-day entry.
C7_Witness ==
    /\ lastOp.op = "tabClick"
    /\ lastOp.period = "20d"
    /\ data # NULL
    /\ Has(data, "periods")
    /\ ~Has(data.periods, "20d")
    /\ regions.gainersList = emptyView(NoDataMsg)

\* the reference rendering of the average-change field
ReferenceAvgChange(overview) ==
    IF ~Has(overview, "avg_change")
    THEN [value |-> "-"]
    ELSE IF overview.avg_change >= 0
    THEN [value |-> "+" \o ToString(overview.avg_change) \o "%", class |-> "up"]
    ELSE [value |-> ToString(overview.avg_change) \o "%", class |-> "down"]

OverviewFieldAt ==
    <<"total_stocks", "up_stocks", "down_stocks", "limit_up", "limit_down",
      "avg_change", "total_amount">>

\* C8: the average-change field renders as "-" when absent, else as the value with
\* "%", "+" and class up iff non-negative; the other six fields render their value,
\* or "-" when absent.
C8_OverviewMatchesReference ==
    called = "renderMarketOverview" =>
        /\ result.kind = "overview"
        /\ \A i \in {1, 2, 3, 4, 5, 7} :
              result.items[i].value =
                 (IF Has(arg, OverviewFieldAt[i]) THEN ToString(arg[OverviewFieldAt[i]])
                  ELSE "-")
        /\ result.items[6].value = ReferenceAvgChange(arg).value
        /\ Has(arg, "avg_change") => result.items[6].class = ReferenceAvgChange(arg).class

\* C9: renderRankingList yields one row per stock in input order, row i numbered
\* i, a rank marker on rows 1 to 3 only, "+" before the change for gainers only;
\* and the placeholder for an absent or empty sequence.
C9_RankingListRows ==
    called = "renderRankingList" =>
        IF ~Has(arg, "stocks") \/ arg.stocks = <<>>
        THEN result = emptyView(NoDataMsg)
        ELSE /\ result.kind = "rows"
             /\ Len(result.rows) = Len(arg.stocks)
             /\ \A i \in 1..Len(arg.stocks) :
                   /\ result.rows[i].symbol = arg.stocks[i].symbol
                   /\ result.rows[i].rank = ToString(i)
                   /\ (result.rows[i].rankClass # "") <=> (i <= 3)
                   /\ i <= 3 => result.rows[i].rankClass = "top" \o ToString(i)
                   /\ result.rows[i].change =
                        (IF arg.type = "gainer" THEN "+" ELSE "")
                        \o ToString(arg.stocks[i].period_change) \o "%"

\* C9 witness: a gainers list of four stocks was rendered.
C9_Witness ==
    /\ called = "renderRankingList"
    /\ arg.type = "gainer"
    /\ Has(arg, "stocks")
    /\ Len(arg.stocks) = 4
    /\ result.kind = "rows"
    /\ result.rows[4].rankClass = ""

\* C10: every tab selection, also with no Snapshot held, raises nothing and leaves
\* the badges and the active tab showing currentPeriod.
C10_TabSelectionAlwaysSafe ==
    lastOp.op = "tabClick" =>
        /\ ~lastOp.threw
        /\ BadgesShow(badges, currentPeriod)
        /\ activeTabs = {currentPeriod}

====
